---- MODULE Spec2Model ----
(***************************************************************************)
(* jobscope-agent: the resource accounting engine.                         *)
(*                                                                         *)
(* One sampling cycle of main() is refresh_user_processes followed by      *)
(* take_global_snapshot (take_cpus_snapshot, take_gpus_snapshot,           *)
(* take_processes_snapshot).  The engine reads text files, environment     *)
(* variables, the host counters kept by sysinfo and the device counters    *)
(* kept by NVML; these are the inputs of the model.                        *)
(*                                                                         *)
(* Text is a sequence of characters, each a string of one character (or    *)
(* "U+" and four hexadecimal digits for a character beyond U+00FF), so     *)
(* that the parsers of the source are modelled by what they do.  An        *)
(* Option<T> is a sequence of length at most one: <<>> is None and <<v>>   *)
(* is Some(v).                                                             *)
(***************************************************************************)
EXTENDS Integers, Sequences, FiniteSets, TLC

VARIABLES
    mode,       \* AgentMode of the run: "Local" or "Slurm"
    files,      \* the file system: path |-> text, for the files that exist
    envv,       \* the environment: variable name |-> text, for the variables set
    host,       \* sysinfo's host counters after refresh_memory / refresh_cpu_usage
    nvml,       \* Option of the NVML handle's view of the devices
    os,         \* the live processes of the machine: pid |-> [uid, start, cpu, mem]
    table,      \* system.processes(): pid |-> [uid, start, cpu, mem]
    seen,       \* history: the process identities the table held in earlier cycles
    clock,      \* the start time the next process gets
    pc,         \* position in the sampling loop of main()
    snapshot,   \* the last Snapshot written to the output folder (<<>> before the first)
    result      \* what the last take_and_save_snapshot returned: "none" before the
                \* first call, then "ok" or "err"

vars == <<mode, files, envv, host, nvml, os, table, seen, clock, pc, snapshot, result>>

-----------------------------------------------------------------------------
(* Bounds of the model.                                                    *)

NumHostCpus == 3    \* system.cpus().len()
MaxPid == 2         \* PIDs are 1..MaxPid
MaxStarts == 2      \* processes started over a run
MaxDevices == 2     \* nvml.device_count()
MaxLines == 2       \* lines of a generated cgroup membership file

-----------------------------------------------------------------------------
(* Option and arithmetic helpers.                                          *)

None == <<>>
Some(v) == <<v>>
IsSome(o) == Len(o) > 0
Unwrap(o) == o[1]


RECURSIVE Pow2(_)
Pow2(n) == IF n <= 0 THEN 1 ELSE 2 * Pow2(n - 1)

RECURSIVE SumSeq(_)
SumSeq(s) == IF s = <<>> THEN 0 ELSE Head(s) + SumSeq(Tail(s))

Range(s) == {s[i] : i \in 1..Len(s)}

\* The elements of a finite set of integers, in increasing order.
RECURSIVE SortedSeq(_)
SortedSeq(S) ==
    IF S = {} THEN <<>>
    ELSE LET m == CHOOSE x \in S : \A y \in S : x <= y
         IN <<m>> \o SortedSeq(S \ {m})

-----------------------------------------------------------------------------
(* Natural numbers wider than the checker's integers.  A Nat is the        *)
(* sequence of its limbs in base 2^15, the lowest first and the highest    *)
(* not 0, so that 0 is <<>> and equal numbers are equal sequences.  A u64  *)
(* is a Nat below 2^64: at most five limbs, the fifth below 16.            *)

Base == Pow2(15)

RECURSIVE Norm(_)
\* drop the zero limbs at the top
Norm(a) == IF a # <<>> /\ a[Len(a)] = 0 THEN Norm(SubSeq(a, 1, Len(a) - 1)) ELSE a

RECURSIVE NatFromInt(_)
NatFromInt(n) == IF n = 0 THEN <<>> ELSE <<n % Base>> \o NatFromInt(n \div Base)

RECURSIVE NatToInt(_)
\* for a Nat below 2^31
NatToInt(a) == IF a = <<>> THEN 0 ELSE Head(a) + Base * NatToInt(Tail(a))

RECURSIVE NatLessFromTop(_, _, _)
NatLessFromTop(a, b, i) ==
    IF i = 0 THEN FALSE
    ELSE IF a[i] # b[i] THEN a[i] < b[i]
    ELSE NatLessFromTop(a, b, i - 1)

NatLess(a, b) == IF Len(a) # Len(b) THEN Len(a) < Len(b) ELSE NatLessFromTop(a, b, Len(a))
NatLeq(a, b) == ~NatLess(b, a)
NatMin(a, b) == IF NatLeq(a, b) THEN a ELSE b
NatMax(a, b) == IF NatLeq(b, a) THEN a ELSE b

RECURSIVE AddLimbs(_, _, _)
AddLimbs(a, b, carry) ==
    IF a = <<>> /\ b = <<>> THEN (IF carry = 0 THEN <<>> ELSE <<carry>>)
    ELSE LET s == (IF a = <<>> THEN 0 ELSE Head(a)) + (IF b = <<>> THEN 0 ELSE Head(b)) + carry
         IN <<s % Base>> \o AddLimbs(IF a = <<>> THEN a ELSE Tail(a),
                                     IF b = <<>> THEN b ELSE Tail(b), s \div Base)
NatAdd(a, b) == AddLimbs(a, b, 0)

RECURSIVE SubLimbs(_, _, _)
SubLimbs(a, b, borrow) ==
    IF a = <<>> THEN <<>>
    ELSE LET d == Head(a) - (IF b = <<>> THEN 0 ELSE Head(b)) - borrow
         IN <<d % Base>> \o SubLimbs(Tail(a), IF b = <<>> THEN b ELSE Tail(b),
                                     IF d < 0 THEN 1 ELSE 0)
\* a - b, for b <= a
NatSub(a, b) == Norm(SubLimbs(a, b, 0))

RECURSIVE MulLimbs(_, _, _)
MulLimbs(a, k, carry) ==
    IF a = <<>> THEN (IF carry = 0 THEN <<>> ELSE <<carry>>)
    ELSE LET p == Head(a) * k + carry
         IN <<p % Base>> \o MulLimbs(Tail(a), k, p \div Base)
\* a * k, for 0 <= k < 2^15
NatMulSmall(a, k) == Norm(MulLimbs(a, k, 0))

RECURSIVE NatMul(_, _)
NatMul(a, b) ==
    IF a = <<>> \/ b = <<>> THEN <<>>
    ELSE NatAdd(NatMulSmall(a, Head(b)), Norm(<<0>> \o NatMul(a, Tail(b))))

RECURSIVE DivLimbs(_, _, _, _)
\* the limbs of a from the i-th down, divided by d with the remainder rem carried in
DivLimbs(a, d, i, rem) ==
    IF i = 0 THEN <<>>
    ELSE LET n == rem * Base + a[i]
         IN Append(DivLimbs(a, d, i - 1, n % d), n \div d)
\* a \div d, for 0 < d <= 2^15
NatDivSmall(a, d) == Norm(DivLimbs(a, d, Len(a), 0))

RECURSIVE BitLen(_)
BitLen(n) == IF n = 0 THEN 0 ELSE 1 + BitLen(n \div 2)
NatBitLen(a) == IF a = <<>> THEN 0 ELSE 15 * (Len(a) - 1) + BitLen(a[Len(a)])

\* a * 2^k and a \div 2^k
ShiftLeft(a, k) ==
    IF a = <<>> THEN <<>>
    ELSE [i \in 1..(k \div 15) |-> 0] \o NatMulSmall(a, Pow2(k % 15))
ShiftRight(a, k) ==
    IF k \div 15 >= Len(a) THEN <<>>
    ELSE NatDivSmall(SubSeq(a, k \div 15 + 1, Len(a)), Pow2(k % 15))
\* bit i of a, the lowest being bit 0
NatBit(a, i) == IF i \div 15 >= Len(a) THEN 0 ELSE (a[i \div 15 + 1] \div Pow2(i % 15)) % 2

RECURSIVE QuotientDigit(_, _, _, _)
\* the greatest d of lo..hi with q * d <= n, for q * lo <= n
QuotientDigit(q, n, lo, hi) ==
    IF lo = hi THEN lo
    ELSE LET mid == (lo + hi + 1) \div 2
         IN IF NatLeq(NatMulSmall(q, mid), n) THEN QuotientDigit(q, n, mid, hi)
            ELSE QuotientDigit(q, n, lo, mid - 1)

RECURSIVE DivNat(_, _, _, _)
\* Long division by q of the limbs of a from the i-th down, with the
\* remainder rem < q carried in: <<the limbs of the quotient, the remainder>>.
DivNat(a, q, i, rem) ==
    IF i = 0 THEN <<<<>>, rem>>
    ELSE LET n == Norm(<<a[i]>> \o rem)
             d == QuotientDigit(q, n, 0, Base - 1)
             rest == DivNat(a, q, i - 1, NatSub(n, NatMulSmall(q, d)))
         IN <<Append(rest[1], d), rest[2]>>

\* <<p * 2^k \div q, p * 2^k % q>>, for q > 0 and k >= 0
NatDivMod(p, q, k) ==
    LET a == ShiftLeft(p, k)
        qr == DivNat(a, q, Len(a), <<>>)
    IN <<Norm(qr[1]), qr[2]>>

\* u64: wrapping addition, saturating multiplication, the bounds
U64Max == NatSub(ShiftLeft(<<1>>, 64), <<1>>)
IsU64(a) == NatLeq(a, U64Max)
wrapping_add(a, b) ==
    LET s == NatAdd(a, b) IN IF IsU64(s) THEN s ELSE NatSub(s, ShiftLeft(<<1>>, 64))
saturating_mul(a, b) == LET p == NatMul(a, b) IN IF IsU64(p) THEN p ELSE U64Max

-----------------------------------------------------------------------------
(* Text.                                                                   *)

Digits == <<"0", "1", "2", "3", "4", "5", "6", "7", "8", "9">>
IsDigit(c) == c \in Range(Digits)
DigitVal(c) == (CHOOSE i \in 1..10 : Digits[i] = c) - 1

\* char::is_whitespace: the White_Space characters.  A character beyond
\* U+00FF cannot be written in a string of a module; in a text it is the
\* one element "U+" followed by its four hexadecimal digits.
WhiteSpace ==
    {"\t", "\n", "", "\f", "\r", " ", "", " ",
     "U+1680", "U+2000", "U+2001", "U+2002", "U+2003", "U+2004", "U+2005", "U+2006",
     "U+2007", "U+2008", "U+2009", "U+200A", "U+2028", "U+2029", "U+202F", "U+205F",
     "U+3000"}

\* str::trim_start, str::trim_end, str::trim
RECURSIVE TrimStart(_)
TrimStart(s) == IF s # <<>> /\ Head(s) \in WhiteSpace THEN TrimStart(Tail(s)) ELSE s
RECURSIVE TrimEnd(_)
TrimEnd(s) ==
    IF s # <<>> /\ s[Len(s)] \in WhiteSpace THEN TrimEnd(SubSeq(s, 1, Len(s) - 1)) ELSE s
Trim(s) == TrimEnd(TrimStart(s))

\* str::split(sep): the pieces between the separators, empty pieces included.
RECURSIVE SplitAcc(_, _, _)
SplitAcc(s, sep, cur) ==
    IF s = <<>> THEN <<cur>>
    ELSE IF Head(s) = sep THEN <<cur>> \o SplitAcc(Tail(s), sep, <<>>)
    ELSE SplitAcc(Tail(s), sep, Append(cur, Head(s)))
Split(s, sep) == SplitAcc(s, sep, <<>>)

\* str::lines: split at line feeds; a final line feed ends the last line, and
\* a carriage return just before a line feed belongs to the line ending.  A
\* carriage return at the end of a last line without line feed stays.
Lines(s) ==
    LET ps == Split(s, "\n")
        strip(i) == IF i < Len(ps) /\ ps[i] # <<>> /\ ps[i][Len(ps[i])] = "\r"
                    THEN SubSeq(ps[i], 1, Len(ps[i]) - 1)
                    ELSE ps[i]
        ls == [i \in 1..Len(ps) |-> strip(i)]
    IN IF ps[Len(ps)] = <<>> THEN SubSeq(ls, 1, Len(ls) - 1) ELSE ls

\* str::split_once(sep): Some(<<before, after>>) at the first separator.
SplitOnce(s, sep) ==
    IF \E i \in 1..Len(s) : s[i] = sep
    THEN LET i == CHOOSE k \in 1..Len(s) : s[k] = sep /\ \A j \in 1..(k - 1) : s[j] # sep
         IN Some(<<SubSeq(s, 1, i - 1), SubSeq(s, i + 1, Len(s))>>)
    ELSE None

\* str::strip_prefix(prefix)
StripPrefix(s, prefix) ==
    IF Len(s) >= Len(prefix) /\ SubSeq(s, 1, Len(prefix)) = prefix
    THEN Some(SubSeq(s, Len(prefix) + 1, Len(s)))
    ELSE None

RECURSIVE DecVal(_)
\* the number a string of digits denotes
DecVal(d) ==
    IF d = <<>> THEN <<>>
    ELSE AddLimbs(NatMulSmall(DecVal(SubSeq(d, 1, Len(d) - 1)), 10), <<>>, DigitVal(d[Len(d)]))

\* str::parse::<u64> (and parse::<usize>, of the same width): an optional
\* '+', then one or more digits, and no overflow.
ParseU64(s) ==
    LET d == IF s # <<>> /\ Head(s) = "+" THEN Tail(s) ELSE s
    IN IF d = <<>> \/ \E i \in 1..Len(d) : ~IsDigit(d[i]) THEN None
       ELSE IF IsU64(DecVal(d)) THEN Some(DecVal(d))
       ELSE None

\* fs::read_to_string(path).ok()
ReadToString(path) == IF path \in DOMAIN files THEN Some(files[path]) ELSE None

\* std::env::var(name).ok()
EnvVar(name) == IF name \in DOMAIN envv THEN Some(envv[name]) ELSE None

-----------------------------------------------------------------------------
(* collectors/cpu.rs: the CPU and memory accountant.                       *)

ProcSelfStatus == <<"/proc/self/status">>
ProcSelfCgroup == <<"/proc/self/cgroup">>
CpusAllowedKey == <<"Cpus_allowed_list:">>
CgroupV2Root == <<"/sys/fs/cgroup">>
CgroupV1MemoryRoot == <<"/sys/fs/cgroup/memory">>

\* (s..=e).collect(), for integers
RangeInclusive(s, e) == IF e < s THEN <<>> ELSE [i \in 1..(e - s + 1) |-> s + i - 1]

\* for i in s..=e { cpus.push(i) }, for a range that fits in memory
push_range(s, e) ==
    IF NatLess(e, s) THEN <<>>
    ELSE [i \in 1..(NatToInt(NatSub(e, s)) + 1) |-> NatAdd(s, NatFromInt(i - 1))]

\* One part of the list: the indices it pushes.
parse_cpu_part(part) ==
    LET dash == SplitOnce(part, "-")
    IN IF IsSome(dash)
       THEN LET s == ParseU64(Unwrap(dash)[1])
                e == ParseU64(Unwrap(dash)[2])
            IN IF IsSome(s) /\ IsSome(e) THEN push_range(Unwrap(s), Unwrap(e)) ELSE <<>>
       ELSE LET i == ParseU64(part)
            IN IF IsSome(i) THEN <<Unwrap(i)>> ELSE <<>>

RECURSIVE parse_cpu_parts(_)
parse_cpu_parts(parts) ==
    IF parts = <<>> THEN <<>>
    ELSE LET part == Trim(Head(parts))
         IN (IF part = <<>> THEN <<>> ELSE parse_cpu_part(part)) \o parse_cpu_parts(Tail(parts))

parse_cpu_list(list_str) == parse_cpu_parts(Split(list_str, ","))

RECURSIVE allowed_cpus_in_lines(_)
allowed_cpus_in_lines(lines) ==
    IF lines = <<>> THEN None
    ELSE LET rest == StripPrefix(Head(lines), CpusAllowedKey)
         IN IF IsSome(rest) THEN Some(parse_cpu_list(Trim(Unwrap(rest))))
            ELSE allowed_cpus_in_lines(Tail(lines))

read_allowed_cpus_from_status ==
    LET status == ReadToString(ProcSelfStatus)
    IN IF IsSome(status) THEN allowed_cpus_in_lines(Lines(Unwrap(status))) ELSE None

\* The loop over the lines of /proc/self/cgroup: Some([path, is_v2]) or None.
\* A line with fewer than three fields leaves the function through `?`.
RECURSIVE cgroup_path_in_lines(_)
cgroup_path_in_lines(lines) ==
    IF lines = <<>> THEN None
    ELSE LET parts == Split(Head(lines), ":")
         IN IF Len(parts) < 3 THEN None
            ELSE LET controllers == parts[2]
                     path == parts[3]
                     is_unified_v2 == controllers = <<>>
                     has_memory_v1 ==
                         \E c \in Range(Split(controllers, ",")) :
                             c = <<"m", "e", "m", "o", "r", "y">>
                 IN IF is_unified_v2 THEN Some([path |-> CgroupV2Root \o path, is_v2 |-> TRUE])
                    ELSE IF has_memory_v1
                    THEN Some([path |-> CgroupV1MemoryRoot \o path, is_v2 |-> FALSE])
                    ELSE cgroup_path_in_lines(Tail(lines))

get_cgroup_memory_path ==
    LET cgroup == ReadToString(ProcSelfCgroup)
    IN IF IsSome(cgroup) THEN cgroup_path_in_lines(Lines(Unwrap(cgroup))) ELSE None

read_u64(path) ==
    LET s == ReadToString(path)
    IN IF IsSome(s) THEN ParseU64(Trim(Unwrap(s))) ELSE None

read_env_u64(var) ==
    LET value == EnvVar(var)
        parsed == IF IsSome(value) THEN ParseU64(Trim(Unwrap(value))) ELSE None
    IN IF IsSome(parsed) /\ Unwrap(parsed) # <<>> THEN parsed ELSE None

mb_to_bytes(mb) == saturating_mul(saturating_mul(mb, NatFromInt(1024)), NatFromInt(1024))

read_slurm_memory_total_bytes(allocated_cpus) ==
    LET mem_total_mb == read_env_u64("JOBSCOPE_MEM_TOTAL_MB")
        mem_per_cpu_mb == read_env_u64("SLURM_MEM_PER_CPU")
        mem_per_node_mb == read_env_u64("SLURM_MEM_PER_NODE")
    IN IF IsSome(mem_total_mb) THEN Some(mb_to_bytes(Unwrap(mem_total_mb)))
       ELSE IF IsSome(mem_per_cpu_mb)
       THEN IF IsSome(allocated_cpus)
            THEN Some(mb_to_bytes(saturating_mul(Unwrap(mem_per_cpu_mb), Unwrap(allocated_cpus))))
            ELSE None
       ELSE IF IsSome(mem_per_node_mb) THEN Some(mb_to_bytes(Unwrap(mem_per_node_mb)))
       ELSE None

\* 1u64 << 60
Shl60 == ShiftLeft(<<1>>, 60)

read_cgroup_memory_limit_bytes ==
    LET loc == get_cgroup_memory_path
    IN IF ~IsSome(loc) THEN None
       ELSE IF Unwrap(loc).is_v2
       THEN LET s == ReadToString(Unwrap(loc).path \o <<"/memory.max">>)
            IN IF ~IsSome(s) THEN None
               ELSE IF Trim(Unwrap(s)) = <<"m", "a", "x">> THEN None
               ELSE ParseU64(Trim(Unwrap(s)))
       ELSE LET limit == read_u64(Unwrap(loc).path \o <<"/memory.limit_in_bytes">>)
            IN IF ~IsSome(limit) THEN None
               ELSE IF NatLeq(Shl60, Unwrap(limit)) THEN None
               ELSE limit

\* Some([current, peak]) with peak an Option, or None
read_cgroup_memory_usage_bytes ==
    LET loc == get_cgroup_memory_path
    IN IF ~IsSome(loc) THEN None
       ELSE IF Unwrap(loc).is_v2
       THEN LET current == read_u64(Unwrap(loc).path \o <<"/memory.current">>)
                peak == read_u64(Unwrap(loc).path \o <<"/memory.peak">>)
            IN IF IsSome(current) THEN Some([current |-> Unwrap(current), peak |-> peak])
               ELSE None
       ELSE LET current == read_u64(Unwrap(loc).path \o <<"/memory.usage_in_bytes">>)
                peak == read_u64(Unwrap(loc).path \o <<"/memory.max_usage_in_bytes">>)
            IN IF IsSome(current) THEN Some([current |-> Unwrap(current), peak |-> peak])
               ELSE None

\* Iterator::sum over u64, as a build without overflow checks adds
RECURSIVE SumMemory(_, _)
SumMemory(procs, pids) ==
    IF pids = {} THEN <<>>
    ELSE LET p == CHOOSE x \in pids : TRUE
         IN wrapping_add(procs[p].mem, SumMemory(procs, pids \ {p}))

sum_process_memory_bytes(system) == SumMemory(system.processes, DOMAIN system.processes)

\* let (cpu_indices, fallback_cpu_count) = match mode { ... }
cpu_indices(m) == IF m = "Local" THEN None ELSE read_allowed_cpus_from_status

fallback_cpu_count(m) ==
    IF m = "Local" THEN None
    ELSE LET v == EnvVar("SLURM_CPUS_ON_NODE")
         IN IF IsSome(v) THEN ParseU64(Unwrap(v)) ELSE None

allocated_cpus(m) ==
    IF IsSome(cpu_indices(m)) THEN Some(NatFromInt(Len(Unwrap(cpu_indices(m)))))
    ELSE fallback_cpu_count(m)

\* The filter of the loop over system.cpus(): is host CPU `index` included?
include_cpu(index, allowed, fallback) ==
    IF IsSome(allowed) THEN NatFromInt(index) \in Range(Unwrap(allowed))
    ELSE IF IsSome(fallback) THEN NatLess(NatFromInt(index), Unwrap(fallback))
    ELSE TRUE

\* cpus_info: the indices of the CPUInfo records, in host order
cpus_info(system, m) ==
    SortedSeq({i \in 0..(system.cpus - 1) : include_cpu(i, cpu_indices(m), fallback_cpu_count(m))})

\* let total = match (slurm_total, cgroup_total) { ... }
resolve_total(slurm_total, cgroup_total, host_total) ==
    IF IsSome(slurm_total) /\ IsSome(cgroup_total)
    THEN NatMin(Unwrap(slurm_total), Unwrap(cgroup_total))
    ELSE IF IsSome(slurm_total) THEN Unwrap(slurm_total)
    ELSE IF IsSome(cgroup_total) THEN Unwrap(cgroup_total)
    ELSE host_total

\* let mut used = used_cgroup.max(used_processes); if used == 0 { ... }; used.min(total)
resolve_used(usage, used_processes, host_used, total) ==
    LET used_cgroup == IF IsSome(usage) THEN Unwrap(usage).current ELSE <<>>
        used == NatMax(used_cgroup, used_processes)
    IN NatMin(IF used = <<>> THEN host_used ELSE used, total)

slurm_memory(system, m) ==
    LET slurm_total == read_slurm_memory_total_bytes(allocated_cpus(m))
        cgroup_total == read_cgroup_memory_limit_bytes
        total == resolve_total(slurm_total, cgroup_total, system.total_memory)
        usage == read_cgroup_memory_usage_bytes
    IN [used_bytes |-> resolve_used(usage, sum_process_memory_bytes(system),
                                    system.used_memory, total),
        total_bytes |-> total,
        max_used_bytes |-> IF IsSome(usage) THEN Unwrap(usage).peak ELSE None]

local_memory(system) ==
    [used_bytes |-> system.used_memory,
     total_bytes |-> system.total_memory,
     max_used_bytes |-> None]

take_cpus_snapshot(system, m) ==
    [cpus |-> cpus_info(system, m),
     memory |-> IF m = "Local" THEN local_memory(system) ELSE slurm_memory(system, m)]

-----------------------------------------------------------------------------
(* Binary floating point.  A value is [m, e], the number m * 2^e.  An f64  *)
(* carries a Nat m below 2^53; an f32 carries an integer m with            *)
(* 2^23 <= m < 2^24, or m = 0 and e = 0 for zero, so that equal f32 are    *)
(* equal records.  Results are rounded to nearest, ties to even.  The      *)
(* magnitudes of the agent (byte counts, percentages and their quotients)  *)
(* are far from the subnormal and the infinite range.                      *)

\* n * 2^e, plus a non-zero fraction below the last place of n when sticky,
\* rounded to `bits` significant bits.
RoundBits(n, e, sticky, bits) ==
    LET drop == NatBitLen(n) - bits
    IN IF drop <= 0 THEN [m |-> n, e |-> e]
       ELSE LET m0 == ShiftRight(n, drop)
                r == NatSub(n, ShiftLeft(m0, drop))
                half == ShiftLeft(<<1>>, drop - 1)
                up == \/ NatLess(half, r)
                      \/ r = half /\ (sticky \/ NatBit(m0, 0) = 1)
                m1 == IF up THEN NatAdd(m0, <<1>>) ELSE m0
            IN IF NatBitLen(m1) > bits
               THEN [m |-> ShiftRight(m1, 1), e |-> e + drop + 1]
               ELSE [m |-> m1, e |-> e + drop]

\* n as f64
F64FromU64(n) == RoundBits(n, 0, FALSE, 53)

\* a / b in f64, for b # 0
F64Div(a, b) ==
    IF a.m = <<>> THEN [m |-> <<>>, e |-> 0]
    ELSE LET k == 55 + NatBitLen(b.m) - NatBitLen(a.m)
             qr == NatDivMod(a.m, b.m, k)
         IN RoundBits(qr[1], a.e - b.e - k, qr[2] # <<>>, 53)

\* a * b in f64
F64Mul(a, b) ==
    IF a.m = <<>> \/ b.m = <<>> THEN [m |-> <<>>, e |-> 0]
    ELSE RoundBits(NatMul(a.m, b.m), a.e + b.e, FALSE, 53)

F32Zero == [m |-> 0, e |-> 0]
F32One == Pow2(23)      \* the significand of a power of two
F32Top == Pow2(24)

\* x as f64, for an f32 x
F64FromF32(x) == [m |-> NatFromInt(x.m), e |-> x.e]

\* x as f32, for an f64 x
F32FromF64(x) ==
    IF x.m = <<>> THEN F32Zero
    ELSE LET r == RoundBits(x.m, x.e, FALSE, 24)
             up == 24 - NatBitLen(r.m)
         IN [m |-> NatToInt(ShiftLeft(r.m, up)), e |-> r.e - up]

\* n * 2^e, plus a non-zero fraction of the last place when sticky, rounded.
\* A sticky n has at least two places more than a significand.
F32Round(n, e, sticky) ==
    IF n = 0 THEN F32Zero
    ELSE IF n < F32One THEN [m |-> n * Pow2(24 - BitLen(n)), e |-> e - (24 - BitLen(n))]
    ELSE LET k == BitLen(n) - 24
             m0 == n \div Pow2(k)
             r == n % Pow2(k)
             half == Pow2(k - 1)
             up == k > 0 /\ (r > half \/ (r = half /\ (sticky \/ m0 % 2 = 1)))
             m1 == IF up THEN m0 + 1 ELSE m0
         IN IF m1 = F32Top THEN [m |-> F32One, e |-> e + k + 1] ELSE [m |-> m1, e |-> e + k]

\* n as f32, for 0 <= n < 2^24
F32FromInt(n) == F32Round(n, 0, FALSE)

\* a + b rounded to f32
F32Add(x, y) ==
    IF x.m = 0 THEN y
    ELSE IF y.m = 0 THEN x
    ELSE LET a == IF x.e >= y.e THEN x ELSE y
             b == IF x.e >= y.e THEN y ELSE x
             d == a.e - b.e
             shift == IF d > 3 THEN d - 3 ELSE 0
         IN IF d >= 26 THEN a
            ELSE F32Round(a.m * Pow2(d - shift) + b.m \div Pow2(shift),
                          b.e + shift,
                          b.m % Pow2(shift) # 0)

-----------------------------------------------------------------------------
(* collectors/gpu.rs: the GPU inventory.  The handle's view of the devices *)
(* is [count_ok, devices]; a device is [ok, util, meminfo, compute,        *)
(* graphics] where ok is the result of device_by_index and the other       *)
(* fields are Options, None for a failed query; a context is [pid, mem]    *)
(* with mem None for UsedGpuMemory::Unavailable.                           *)

device_count(n) == IF n.count_ok THEN Some(Len(n.devices)) ELSE None

_collect_gpu_info(n, index) ==
    LET device == n.devices[index + 1]
    IN IF ~device.ok THEN None
       ELSE IF ~IsSome(device.util) THEN None
       ELSE IF ~IsSome(device.meminfo) THEN None
       ELSE Some([index |-> index,
                  usage_percent |-> F32FromInt(Unwrap(device.util)),
                  memory_load |-> [used_bytes |-> Unwrap(device.meminfo).used,
                                   total_bytes |-> Unwrap(device.meminfo).total]])

RECURSIVE gpu_infos(_, _, _)
gpu_infos(n, index, count) ==
    IF index >= count THEN <<>>
    ELSE _collect_gpu_info(n, index) \o gpu_infos(n, index + 1, count)

take_gpus_snapshot(handle) ==
    IF ~IsSome(handle) THEN [gpus |-> <<>>]
    ELSE LET n == Unwrap(handle)
             count == IF IsSome(device_count(n)) THEN Unwrap(device_count(n)) ELSE 0
         IN [gpus |-> gpu_infos(n, 0, count)]

-----------------------------------------------------------------------------
(* collectors/process.rs: GPU attribution.                                 *)

\* the Used(bytes) of a list of contexts, summed
RECURSIVE used_memory_sum(_)
used_memory_sum(procs) ==
    IF procs = <<>> THEN <<>>
    ELSE wrapping_add(IF IsSome(Head(procs).mem) THEN Unwrap(Head(procs).mem) ELSE <<>>,
                      used_memory_sum(Tail(procs)))

\* First pass, one device: total_proc_memory
total_proc_memory(device) ==
    wrapping_add(
        IF IsSome(device.compute) THEN used_memory_sum(Unwrap(device.compute)) ELSE <<>>,
        IF IsSome(device.graphics) THEN used_memory_sum(Unwrap(device.graphics)) ELSE <<>>)

\* First pass, one device: gpu_util (0.0 when utilization_rates fails)
first_pass_util(device) == IF IsSome(device.util) THEN Unwrap(device.util) ELSE 0

\* if total_memory > 0 { (memory as f64 / total_memory as f64 * gpu_util as f64) as f32 }
\* else { 0.0 }, with gpu_util the f32 of the first pass
usage_percent(memory, total_memory, gpu_util) ==
    IF total_memory # <<>>
    THEN F32FromF64(F64Mul(F64Div(F64FromU64(memory), F64FromU64(total_memory)),
                           F64FromF32(F32FromInt(gpu_util))))
    ELSE F32Zero

\* credit that counts a PID once per device: a second context of the PID on a
\* device it is already recorded for is dropped.
credit_once_per_device(gpu_usage, pid, usage, memory, gpu_index) ==
    IF pid \in DOMAIN gpu_usage
    THEN IF gpu_index \in Range(gpu_usage[pid].gpus) THEN gpu_usage
         ELSE [gpu_usage EXCEPT ![pid] =
                  [usage |-> F32Add(@.usage, usage),
                   mem |-> wrapping_add(@.mem, memory),
                   gpus |-> Append(@.gpus, gpu_index)]]
    ELSE gpu_usage @@ (pid :> [usage |-> usage, mem |-> memory, gpus |-> <<gpu_index>>])

\* gpu_usage.entry(pid).and_modify(..).or_insert(..)
credit(gpu_usage, pid, usage, memory, gpu_index) ==
    IF pid \in DOMAIN gpu_usage
    THEN [gpu_usage EXCEPT ![pid] =
             [usage |-> F32Add(@.usage, usage),
              mem |-> wrapping_add(@.mem, memory),
              gpus |-> IF gpu_index \in Range(@.gpus) THEN @.gpus
                       ELSE Append(@.gpus, gpu_index)]]
    ELSE gpu_usage @@ (pid :> [usage |-> usage, mem |-> memory, gpus |-> <<gpu_index>>])

\* for proc_info in <one list of a device> { ... }
RECURSIVE credit_list(_, _, _, _, _)
credit_list(gpu_usage, procs, gpu_index, gpu_util, total_memory) ==
    IF procs = <<>> THEN gpu_usage
    ELSE LET memory == IF IsSome(Head(procs).mem) THEN Unwrap(Head(procs).mem) ELSE <<>>
         IN credit_list(credit(gpu_usage, Head(procs).pid,
                               usage_percent(memory, total_memory, gpu_util),
                               memory, gpu_index),
                        Tail(procs), gpu_index, gpu_util, total_memory)

\* Second pass, one device.  A failed read of the compute list leaves the
\* iteration (`continue`) before the graphics list is read.
second_pass_device(gpu_usage, device, gpu_index) ==
    IF ~device.ok THEN gpu_usage
    ELSE LET gpu_util == first_pass_util(device)
             total_memory == total_proc_memory(device)
         IN IF ~IsSome(device.compute) THEN gpu_usage
            ELSE LET after_compute ==
                         credit_list(gpu_usage, Unwrap(device.compute), gpu_index,
                                     gpu_util, total_memory)
                 IN IF ~IsSome(device.graphics) THEN after_compute
                    ELSE credit_list(after_compute, Unwrap(device.graphics), gpu_index,
                                     gpu_util, total_memory)

RECURSIVE second_pass(_, _, _)
second_pass(gpu_usage, n, gpu_index) ==
    IF gpu_index >= Len(n.devices) THEN gpu_usage
    ELSE second_pass(second_pass_device(gpu_usage, n.devices[gpu_index + 1], gpu_index),
                     n, gpu_index + 1)

EmptyMap == [x \in {} |-> 0]

\* pid |-> [usage, mem, gpus]
_collect_gpu_usage(n) ==
    IF ~IsSome(device_count(n)) THEN EmptyMap ELSE second_pass(EmptyMap, n, 0)

-----------------------------------------------------------------------------
(* collectors/process.rs: the process enumerator and the process section.  *)

AgentUid == 1
Pids == 1..MaxPid

\* let my_uid = fs::metadata("/proc/self").map(|m| m.uid()).unwrap_or(0)
my_uid(self_ok) == IF self_ok THEN AgentUid ELSE 0

\* The PIDs pushed while scanning /proc.  `entries` is what the scan reads:
\* None when read_dir fails, else the PIDs whose fs::metadata(&path) is Ok.
discovered(self_ok, entries) ==
    IF IsSome(entries)
    THEN {p \in DOMAIN os \cap Unwrap(entries) : os[p].uid = my_uid(self_ok)}
    ELSE {}

\* the PIDs handed to the refresh: the discovered ones, then the table's keys
refresh_pids(self_ok, entries) == discovered(self_ok, entries) \cup DOMAIN table

\* system.refresh_processes_specifics(ProcessesToUpdate::Some(&pids), true, ..):
\* a PID of the list that names a live process holds that process's facts
\* afterwards (a new entry, an update, or the entry of the process that now
\* has the PID); a PID of the list that names none is removed.
refresh_processes_specifics(processes, pids) ==
    [p \in (pids \cap DOMAIN os) \cup (DOMAIN processes \ pids) |->
        IF p \in pids THEN os[p] ELSE processes[p]]

\* if process.cpu_usage() > 0.0 { (0..cpu_count).collect() } else { Vec::new() }
cpus_indexes(cpu_usage, cpu_count) ==
    IF cpu_usage > 0 THEN RangeInclusive(0, cpu_count - 1) ELSE <<>>

process_info(system, gpu_usage_map, pid) ==
    LET process == system.processes[pid]
        has_gpu == pid \in DOMAIN gpu_usage_map
    IN [pid |-> pid,
        cpu_usage_percent |-> process.cpu,
        cpu_memory_bytes |-> process.mem,
        gpu_usage_percent |-> IF has_gpu THEN gpu_usage_map[pid].usage ELSE F32Zero,
        gpu_memory_bytes |-> IF has_gpu THEN gpu_usage_map[pid].mem ELSE <<>>,
        cpus_indexes |-> cpus_indexes(process.cpu, system.cpus),
        gpus_indexes |-> IF has_gpu THEN gpu_usage_map[pid].gpus ELSE <<>>]

\* emitted that also keeps a process for its GPU memory alone.
emitted_for_gpu_memory(p) ==
    \/ p.cpu_usage_percent > 0 \/ p.gpu_usage_percent.m > 0 \/ p.cpu_memory_bytes # <<>>
    \/ p.gpu_memory_bytes # <<>>

\* .filter(|p| p.cpu_usage_percent > 0.0 || p.gpu_usage_percent > 0.0 || p.cpu_memory_bytes > 0)
emitted(p) ==
    p.cpu_usage_percent > 0 \/ p.gpu_usage_percent.m > 0 \/ p.cpu_memory_bytes # <<>>

take_processes_snapshot(system, handle) ==
    LET gpu_usage_map == IF IsSome(handle) THEN _collect_gpu_usage(Unwrap(handle)) ELSE EmptyMap
    IN [processes |->
           {p \in {process_info(system, gpu_usage_map, pid) : pid \in DOMAIN system.processes} :
               emitted(p)}]

-----------------------------------------------------------------------------
(* collectors.rs and main.rs: one sampling cycle.                          *)

MiB == 1024 * 1024
\* the u64 of a small number
U64(n) == NatFromInt(n)

\* What refresh_memory() and refresh_cpu_usage() can load: the CPUs of the
\* host, its used and its total memory.
HostCounters ==
    [ncpu : {NumHostCpus}, used : {U64(3 * MiB), U64(9 * MiB)}, total : {U64(8 * MiB)}]
QuietHost == [ncpu |-> NumHostCpus, used |-> U64(3 * MiB), total |-> U64(8 * MiB)]
\* System::new(): nothing is loaded before the first refresh
NewSystem == [ncpu |-> 0, used |-> U64(0), total |-> U64(0)]

\* The sysinfo System the collectors read.
System ==
    [cpus |-> host.ncpu,
     used_memory |-> host.used,
     total_memory |-> host.total,
     processes |-> table]

\* The Result of take_global_snapshot: Some(the Snapshot written) for Ok,
\* None for Err.  fs::create_dir_all(output_folder)? fails before anything is
\* collected (folder_ok); File::create / write_all fail after the Snapshot is
\* built (file_ok).
take_global_snapshot(system, handle, m, folder_ok, file_ok) ==
    IF ~folder_ok THEN None
    ELSE LET built == [cpus_snapshot |-> take_cpus_snapshot(system, m),
                       gpus_snapshot |-> take_gpus_snapshot(handle),
                       processes_snapshot |-> take_processes_snapshot(system, handle)]
         IN IF file_ok THEN Some(built) ELSE None

\* collectors::process::refresh_user_processes(&mut system): the process
\* table afterwards.  metadata("/proc/self") succeeds (self_ok) or fails.
refresh_user_processes(self_ok, entries) ==
    refresh_processes_specifics(table, refresh_pids(self_ok, entries))

\* what a scan of /proc can read
Scans == {None} \cup {Some(readable) : readable \in SUBSET Pids}

\* system.refresh_memory(); system.refresh_cpu_usage();
\* refresh_user_processes(&mut system): the first refresh of main() and the
\* head of every cycle.  The first two calls read the host counters anew.
Refresh ==
    /\ pc \in {"start", "sleep"}
    /\ host' \in HostCounters
    /\ \E self_ok \in BOOLEAN, entries \in Scans :
          table' = refresh_user_processes(self_ok, entries)
    /\ seen' = seen \cup {<<p, table[p].start>> : p \in DOMAIN table}
    /\ pc' = IF pc = "start" THEN "sleep" ELSE "refreshed"
    /\ UNCHANGED <<mode, files, envv, nvml, os, clock, snapshot, result>>

\* take_and_save_snapshot(&system, nvml.as_ref(), output_folder, mode); on
\* Err main prints the error and goes on, and no file is written.
TakeSnapshot ==
    /\ pc = "refreshed"
    /\ \E folder_ok \in BOOLEAN, file_ok \in BOOLEAN :
          \E written \in {take_global_snapshot(System, nvml, mode, folder_ok, file_ok)} :
             /\ snapshot' = IF IsSome(written) THEN written ELSE snapshot
             /\ result' = IF IsSome(written) THEN "ok" ELSE "err"
    /\ pc' = "sleep"
    /\ UNCHANGED <<mode, files, envv, host, nvml, os, table, seen, clock>>

-----------------------------------------------------------------------------
(* The inputs of the specifications.                                       *)

Txt1MiB == <<"1", "0", "4", "8", "5", "7", "6">>
Txt2MiB == <<"2", "0", "9", "7", "1", "5", "2">>
Txt4MiB == <<"4", "1", "9", "4", "3", "0", "4">>
Txt6MiB == <<"6", "2", "9", "1", "4", "5", "6">>
\* 0x7FFFFFFFFFFFF000, what an unlimited v1 cgroup reports
TxtUnlimited ==
    <<"9","2","2","3","3","7","2","0","3","6","8","5","4","7","7","1","7","1","2">>
TxtMax == <<"m", "a", "x">>

\* /proc/self/status holding the allowed-CPU list `list`
StatusFile(list) ==
    ProcSelfStatus :>
        (<<"P", "i", "d", ":", "\t", "7", "\n">> \o CpusAllowedKey \o <<"\t">> \o list \o <<"\n">>)
\* /proc/self/status without the allowed-CPU line
StatusFileNoList == ProcSelfStatus :> <<"P", "i", "d", ":", "\t", "7", "\n">>

NoFiles == [x \in {} |-> <<>>]
NoEnv == [x \in {} |-> <<>>]

\* name |-> text when the Option `o` is set, nothing otherwise
Setting(name, o) == IF IsSome(o) THEN name :> Unwrap(o) ELSE NoEnv

JobPath == <<"/", "j">>
LineV2 == <<"0", ":", ":">> \o JobPath
LineV1 == <<"5", ":", "m", "e", "m", "o", "r", "y", ":">> \o JobPath

\* The accounting files of the job's cgroup, for the hierarchy `is_v2`.
CgroupFiles(is_v2, limit, current, peak) ==
    LET dir == (IF is_v2 THEN CgroupV2Root ELSE CgroupV1MemoryRoot) \o JobPath
    IN (ProcSelfCgroup :> ((IF is_v2 THEN LineV2 ELSE LineV1) \o <<"\n">>))
       @@ Setting(dir \o <<IF is_v2 THEN "/memory.max" ELSE "/memory.limit_in_bytes">>, limit)
       @@ Setting(dir \o <<IF is_v2 THEN "/memory.current" ELSE "/memory.usage_in_bytes">>,
                  current)
       @@ Setting(dir \o <<IF is_v2 THEN "/memory.peak" ELSE "/memory.max_usage_in_bytes">>,
                  peak)

Modes == {"Local", "Slurm"}

\* a process with `mem` bytes of resident memory
Proc(uid, start, cpu, mem) == [uid |-> uid, start |-> start, cpu |-> cpu, mem |-> U64(mem)]
NoProcs == [x \in {} |-> 0]

\* Specification of the memory accountant: the inputs of one snapshot.
MemStatusFiles == {NoFiles, StatusFile(<<"0", "-", "1">>)}
MemCgroupFiles ==
    {NoFiles} \cup
    {CgroupFiles(v, limit, current, peak) :
        v \in BOOLEAN,
        limit \in {None, Some(TxtMax), Some(<<"x">>), Some(Txt2MiB), Some(Txt4MiB),
                   Some(TxtUnlimited)},
        current \in {None, Some(<<"0">>), Some(Txt6MiB)},
        peak \in {None, Some(Txt6MiB)}}
MemEnvs ==
    {Setting("SLURM_CPUS_ON_NODE", count) @@ Setting("JOBSCOPE_MEM_TOTAL_MB", total)
        @@ Setting("SLURM_MEM_PER_CPU", per_cpu) @@ Setting("SLURM_MEM_PER_NODE", per_node) :
        count \in {None, Some(<<"3">>)},
        total \in {None, Some(<<"0">>), Some(<<"3">>)},
        per_cpu \in {None, Some(<<"1">>), Some(<<"x">>)},
        per_node \in {None, Some(<<"2">>)}}
MemTables ==
    {NoProcs, 1 :> Proc(AgentUid, 1, 0, 0), 1 :> Proc(AgentUid, 1, 50, 5 * MiB)}

InitMem ==
    /\ mode \in Modes
    /\ \E st \in MemStatusFiles, cg \in MemCgroupFiles : files = st @@ cg
    /\ envv \in MemEnvs
    /\ host \in HostCounters
    /\ nvml = None
    /\ table \in MemTables
    /\ os = table
    /\ seen = {}
    /\ clock = 2
    /\ pc = "refreshed"
    /\ snapshot = None
    /\ result = "none"

NextMem == TakeSnapshot

SpecMem == InitMem /\ [][NextMem]_vars

-----------------------------------------------------------------------------
(* Properties of the memory accountant, checked under SpecMem.             *)

Taken == IsSome(snapshot)
Memory == Unwrap(snapshot).cpus_snapshot.memory
Gpus == Unwrap(snapshot).gpus_snapshot.gpus
Cpus == Unwrap(snapshot).cpus_snapshot.cpus
Processes == Unwrap(snapshot).processes_snapshot.processes

\* C1: every MemoryLoad of a snapshot, the host's and each device's, has
\* used_bytes <= total_bytes, in every mode and whatever the sources hold.
C1_UsedWithinTotal ==
    Taken =>
        /\ NatLeq(Memory.used_bytes, Memory.total_bytes)
        /\ \A i \in 1..Len(Gpus) :
              NatLeq(Gpus[i].memory_load.used_bytes, Gpus[i].memory_load.total_bytes)

\* The environment-derived total as the fallback order defines it: the
\* override, else the per-CPU value times the resolved CPU count when both
\* are there, else the per-node value.
ClaimedEnvTotal ==
    LET override == read_env_u64("JOBSCOPE_MEM_TOTAL_MB")
        per_cpu == read_env_u64("SLURM_MEM_PER_CPU")
        per_node == read_env_u64("SLURM_MEM_PER_NODE")
        count == allocated_cpus("Slurm")
    IN IF IsSome(override) THEN Some(mb_to_bytes(Unwrap(override)))
       ELSE IF IsSome(per_cpu) /\ IsSome(count)
       THEN Some(mb_to_bytes(saturating_mul(Unwrap(per_cpu), Unwrap(count))))
       ELSE IF IsSome(per_node) THEN Some(mb_to_bytes(Unwrap(per_node)))
       ELSE None

\* C2: in cluster-managed mode the total comes from the first source, in the
\* order override, per-CPU value times CPU count, per-node value, cgroup
\* limit, host total, that yields a value; a source that yields none (a
\* per-CPU value without a resolved CPU count included) hands over to the
\* next one.  An environment-derived total is capped by the cgroup limit when
\* both are there, as C3 states.
C2_TotalSourceOrder ==
    (Taken /\ mode = "Slurm") =>
        LET env_total == ClaimedEnvTotal
            cgroup_total == read_cgroup_memory_limit_bytes
        IN Memory.total_bytes =
              IF IsSome(env_total) /\ IsSome(cgroup_total)
              THEN NatMin(Unwrap(env_total), Unwrap(cgroup_total))
              ELSE IF IsSome(env_total) THEN Unwrap(env_total)
              ELSE IF IsSome(cgroup_total) THEN Unwrap(cgroup_total)
              ELSE host.total

\* C3: in cluster-managed mode, when the environment holds a total (the
\* override, the per-CPU value times the allocated CPUs, or the per-node
\* value) and the cgroup yields a limit, total_bytes is the smaller of the
\* two and exceeds neither.
C3_MinOfEnvAndCgroup ==
    (Taken /\ mode = "Slurm") =>
        LET env_total == ClaimedEnvTotal
            cgroup_total == read_cgroup_memory_limit_bytes
        IN (IsSome(env_total) /\ IsSome(cgroup_total)) =>
              /\ Memory.total_bytes \in {Unwrap(env_total), Unwrap(cgroup_total)}
              /\ NatLeq(Memory.total_bytes, Unwrap(env_total))
              /\ NatLeq(Memory.total_bytes, Unwrap(cgroup_total))

\* C10: in cluster-managed mode used_bytes is min(total, max(cgroup usage,
\* resident memory of the tracked processes)) whenever the cgroup usage can
\* be read (a usage of zero included) or the tracked processes hold resident
\* memory, and min(total, host used memory) only when neither yields data.
C10_UsedMemory ==
    (Taken /\ mode = "Slurm") =>
        LET usage == read_cgroup_memory_usage_bytes
            used_cgroup == IF IsSome(usage) THEN Unwrap(usage).current ELSE <<>>
            used_processes == SumMemory(table, DOMAIN table)
        IN Memory.used_bytes =
              IF IsSome(usage) \/ used_processes # <<>>
              THEN NatMin(Memory.total_bytes, NatMax(used_cgroup, used_processes))
              ELSE NatMin(Memory.total_bytes, host.used)

-----------------------------------------------------------------------------
(* The cgroup location, checked under SpecCgroup.                          *)

TxtMemory == <<"m", "e", "m", "o", "r", "y">>
PathA == <<"/", "a">>
CgroupLines ==
    {<<"0", ":", ":">> \o PathA,                                 \* v2
     <<"5", ":">> \o TxtMemory \o <<":">> \o PathA,              \* v1
     <<"4", ":", "c", "p", "u", ",">> \o TxtMemory \o <<":">> \o PathA,
     <<"5", ":", "c", "p", "u", ":">> \o PathA,                  \* no memory controller
     <<"6", ":">> \o TxtMemory \o <<"x", ":">> \o PathA,         \* a controller named memoryx
     <<"x">>,                                                    \* not a record
     <<>>,                                                       \* a blank line
     <<"0", ":", ":">> \o PathA \o <<":", "b">>}                 \* a path holding a colon

\* the files of at most n lines over CgroupLines
RECURSIVE CgroupTexts(_)
CgroupTexts(n) ==
    IF n = 0 THEN {<<>>}
    ELSE CgroupTexts(n - 1) \cup
         {t \o l \o <<"\n">> : t \in CgroupTexts(n - 1), l \in CgroupLines}

\* The accounting files that exist below both roots.
AccountingFiles ==
    ((CgroupV2Root \o PathA \o <<"/memory.max">>) :> Txt2MiB)
    @@ ((CgroupV2Root \o PathA \o <<"/memory.current">>) :> Txt1MiB)
    @@ ((CgroupV1MemoryRoot \o PathA \o <<"/memory.limit_in_bytes">>) :> Txt4MiB)
    @@ ((CgroupV1MemoryRoot \o PathA \o <<"/memory.usage_in_bytes">>) :> Txt6MiB)

InitCgroup ==
    /\ mode = "Slurm"
    /\ \E membership \in {NoFiles} \cup {ProcSelfCgroup :> t : t \in CgroupTexts(MaxLines)} :
          files = membership @@ AccountingFiles
    /\ envv = NoEnv
    /\ host = QuietHost
    /\ nvml = None
    /\ table = NoProcs
    /\ os = table
    /\ seen = {}
    /\ clock = 1
    /\ pc = "refreshed"
    /\ snapshot = None
    /\ result = "none"

NextCgroup == TakeSnapshot

SpecCgroup == InitCgroup /\ [][NextCgroup]_vars

\* A line as a record hierarchy:controllers:path, the path being what follows
\* the second colon: Some([controllers, path]), or None for any other line.
AsRecord(line) ==
    LET first == SplitOnce(line, ":")
        second == IF IsSome(first) THEN SplitOnce(Unwrap(first)[2], ":") ELSE None
    IN IF IsSome(second)
       THEN Some([controllers |-> Unwrap(second)[1], path |-> Unwrap(second)[2]])
       ELSE None

IsV2Record(line) == IsSome(AsRecord(line)) /\ Unwrap(AsRecord(line)).controllers = <<>>
IsV1Record(line) ==
    /\ IsSome(AsRecord(line))
    /\ TxtMemory \in Range(Split(Unwrap(AsRecord(line)).controllers, ","))
Matches(line) == IsV2Record(line) \/ IsV1Record(line)

\* The location the first matching line gives, None when no line matches.
ClaimedLocation(lines) ==
    IF \E i \in 1..Len(lines) : Matches(lines[i])
    THEN LET i == CHOOSE k \in 1..Len(lines) :
                      Matches(lines[k]) /\ \A j \in 1..(k - 1) : ~Matches(lines[j])
         IN IF IsV2Record(lines[i])
            THEN Some([path |-> CgroupV2Root \o Unwrap(AsRecord(lines[i])).path,
                       is_v2 |-> TRUE])
            ELSE Some([path |-> CgroupV1MemoryRoot \o Unwrap(AsRecord(lines[i])).path,
                       is_v2 |-> FALSE])
    ELSE None

\* C4: the cgroup location is the one of the first line, in file order, whose
\* controllers field is empty (v2) or contains memory (v1); the lines before
\* it that are no such record are skipped, and there is no location only
\* when no line matches.
C4_FirstMatchingLine ==
    (Taken /\ IsSome(ReadToString(ProcSelfCgroup))) =>
        get_cgroup_memory_path = ClaimedLocation(Lines(Unwrap(ReadToString(ProcSelfCgroup))))

-----------------------------------------------------------------------------
(* The CPU section and cpus_indexes, checked under SpecCpu.                *)

CpuLists ==
    {<<"0", "-", "1">>,                 \* 0-1
     <<"0", ",", "2">>,                 \* 0,2
     <<"1", " ", ",", "U+1680", "1">>,  \* 1 , 1 with an ogham space mark
     <<"2", "-", "9">>,                 \* reaches beyond the host's CPUs
     <<>>,                              \* an empty list
     <<"x">>,                           \* no index at all
     <<"0", ",", "x">>,                 \* one part unparsable
     <<"1", "-", "x">>}                 \* a range without an end

CpuTables ==
    {NoProcs,
     1 :> Proc(AgentUid, 1, 50, MiB),
     (1 :> Proc(AgentUid, 1, 0, MiB)) @@ (2 :> Proc(AgentUid, 2, 50, 0))}

InitCpu ==
    /\ mode \in Modes
    /\ files \in {NoFiles, StatusFileNoList} \cup {StatusFile(l) : l \in CpuLists}
    /\ envv \in {Setting("SLURM_CPUS_ON_NODE", c) :
                    c \in {None, Some(<<"2">>), Some(<<"0">>), Some(<<"x">>), Some(<<"9">>)}}
    /\ host = QuietHost
    /\ nvml = None
    /\ table \in CpuTables
    /\ os = table
    /\ seen = {}
    /\ clock = 3
    /\ pc = "refreshed"
    /\ snapshot = None
    /\ result = "none"

NextCpu == TakeSnapshot

SpecCpu == InitCpu /\ [][NextCpu]_vars

HostCpus == 0..(host.ncpu - 1)

\* The text of the allowed-CPU list of /proc/self/status, when the file can
\* be read and holds the line.
AllowedListText ==
    LET status == ReadToString(ProcSelfStatus)
        lines == IF IsSome(status) THEN Lines(Unwrap(status)) ELSE <<>>
    IN IF \E i \in 1..Len(lines) : IsSome(StripPrefix(lines[i], CpusAllowedKey))
       THEN LET i == CHOOSE k \in 1..Len(lines) :
                         /\ IsSome(StripPrefix(lines[k], CpusAllowedKey))
                         /\ \A j \in 1..(k - 1) : ~IsSome(StripPrefix(lines[j], CpusAllowedKey))
            IN Some(Trim(Unwrap(StripPrefix(lines[i], CpusAllowedKey))))
       ELSE None

\* An index, or a range of two indices.
WellFormedPart(part) ==
    \/ IsSome(ParseU64(part))
    \/ /\ IsSome(SplitOnce(part, "-"))
       /\ IsSome(ParseU64(Unwrap(SplitOnce(part, "-"))[1]))
       /\ IsSome(ParseU64(Unwrap(SplitOnce(part, "-"))[2]))

\* A list of one or more well-formed parts.
WellFormedList(text) ==
    /\ text # <<>>
    /\ \A part \in Range(Split(text, ",")) : WellFormedPart(Trim(part))

\* The CPU set of cluster-managed mode by the priority of the sources; a
\* source that is absent or malformed hands over to the next one.
ClaimedCpuSet ==
    LET list == AllowedListText
        count == IF IsSome(EnvVar("SLURM_CPUS_ON_NODE"))
                 THEN ParseU64(Unwrap(EnvVar("SLURM_CPUS_ON_NODE"))) ELSE None
    IN IF IsSome(list) /\ WellFormedList(Unwrap(list))
       THEN {i \in HostCpus : U64(i) \in Range(parse_cpu_list(Unwrap(list)))}
       ELSE IF IsSome(count) THEN {i \in HostCpus : NatLess(U64(i), Unwrap(count))}
       ELSE HostCpus

\* C5: the CPU section holds each selected host CPU once: in cluster-managed
\* mode those of the affinity list when it is available, else 0..count-1 of
\* the allocated-CPU count, else all; an absent or malformed list or count
\* hands over to the next source.  In Local mode it holds all host CPUs.
C5_CpuSetPriority ==
    Taken =>
        /\ Range(Cpus) = IF mode = "Local" THEN HostCpus ELSE ClaimedCpuSet
        /\ Len(Cpus) = Cardinality(Range(Cpus))

\* C9: the cpus_indexes of a process with CPU usage are exactly the indices
\* of the snapshot's CPU section, and those of a process without are empty.
C9_ProcessCpuIndexes ==
    Taken =>
        \A p \in Processes :
            IF p.cpu_usage_percent > 0
            THEN Range(p.cpus_indexes) = Range(Cpus)
            ELSE p.cpus_indexes = <<>>

-----------------------------------------------------------------------------
(* GPU attribution, checked under SpecGpu.                                 *)

\* a context of `pid` with Some(bytes) of memory, or None for Unavailable
Ctx(pid, mem) == [pid |-> pid, mem |-> IF IsSome(mem) THEN Some(U64(Unwrap(mem))) ELSE None]
Device(ok, util, meminfo, compute, graphics) ==
    [ok |-> ok, util |-> util, meminfo |-> meminfo, compute |-> compute, graphics |-> graphics]
MemInfo(used, total) == [used |-> U64(used), total |-> U64(total)]

ComputeLists ==
    {<<>>,
     <<Ctx(1, Some(1)), Ctx(2, Some(3))>>,
     <<Ctx(1, Some(2)), Ctx(1, Some(3))>>,
     <<Ctx(1, None)>>}
GraphicsLists == {<<>>, <<Ctx(1, Some(1))>>, <<Ctx(2, Some(2))>>}

\* a device that cannot be opened
BrokenDevice == Device(FALSE, None, None, None, None)

\* devices whose queries all succeed
WorkingDevices ==
    {Device(TRUE, Some(util), Some(MemInfo(1, 2)), Some(compute), Some(graphics)) :
        util \in {7, 50}, compute \in ComputeLists, graphics \in GraphicsLists}

\* devices of which some queries fail
FailingDevices ==
    {Device(TRUE, util, meminfo, compute, graphics) :
        util \in {None, Some(50)},
        meminfo \in {None, Some(MemInfo(3, 2))},
        compute \in {None, Some(<<Ctx(1, Some(1))>>)},
        graphics \in {None, Some(<<Ctx(2, Some(1))>>)}}

Devices == {BrokenDevice} \cup WorkingDevices \cup FailingDevices

RECURSIVE DeviceSeqs(_)
DeviceSeqs(n) ==
    IF n = 0 THEN {<<>>}
    ELSE DeviceSeqs(n - 1) \cup {Append(ds, d) : ds \in DeviceSeqs(n - 1), d \in Devices}

Handle(count_ok, devices) == [count_ok |-> count_ok, devices |-> devices]

GpuTables ==
    {(1 :> Proc(AgentUid, 1, 0, MiB)) @@ (2 :> Proc(AgentUid, 2, 0, MiB)),
     2 :> Proc(AgentUid, 2, 50, 0)}

InitGpu ==
    /\ mode = "Local"
    /\ files = NoFiles
    /\ envv = NoEnv
    /\ host = QuietHost
    /\ nvml \in {None, Some(Handle(FALSE, <<>>))}
                \cup {Some(Handle(TRUE, ds)) : ds \in DeviceSeqs(MaxDevices)}
    /\ table \in GpuTables
    /\ os = table
    /\ seen = {}
    /\ clock = 3
    /\ pc = "refreshed"
    /\ snapshot = None
    /\ result = "none"

NextGpu == TakeSnapshot

SpecGpu == InitGpu /\ [][NextGpu]_vars

Abs(x) == IF x < 0 THEN 0 - x ELSE x

\* The handle is there and every list of every device that opens is read.
ListsRead ==
    /\ IsSome(nvml)
    /\ Unwrap(nvml).count_ok
    /\ \A i \in 1..Len(Unwrap(nvml).devices) :
          LET d == Unwrap(nvml).devices[i]
          IN d.ok => (IsSome(d.compute) /\ IsSome(d.graphics))

\* the indices (from 0) of the devices that open
OpenDevices == {i \in 0..(Len(Unwrap(nvml).devices) - 1) : Unwrap(nvml).devices[i + 1].ok}
DeviceAt(i) == Unwrap(nvml).devices[i + 1]

\* the contexts of a device, the compute list first
Entries(d) == Unwrap(d.compute) \o Unwrap(d.graphics)
CtxMem(c) == IF IsSome(c.mem) THEN NatToInt(Unwrap(c.mem)) ELSE 0
\* the total attributable memory of a device
Attributable(d) == SumSeq([k \in 1..Len(Entries(d)) |-> CtxMem(Entries(d)[k])])
\* the memory of the contexts of `pid` on a device, each list counted
MemoryOf(pid, d) ==
    SumSeq([k \in 1..Len(Entries(d)) |->
               IF Entries(d)[k].pid = pid THEN CtxMem(Entries(d)[k]) ELSE 0])
EntriesOf(pid, d) == Cardinality({k \in 1..Len(Entries(d)) : Entries(d)[k].pid = pid})
Utilization(d) == IF IsSome(d.util) THEN Unwrap(d.util) ELSE 0

\* The share the attribution gives a context of a device.
Share(d, c) == usage_percent(U64(CtxMem(c)), total_proc_memory(d), first_pass_util(d))

\* The f32 x is the quotient p / q itself.
IsExactly(x, p, q) == IF x.m = 0 THEN p = 0 ELSE x.e <= 0 /\ x.m * q = p * Pow2(0 - x.e)
\* The f32 x is p / q to within a relative error of 2^-23.
IsRounded(x, p, q) ==
    IF x.m = 0 THEN p = 0
    ELSE x.e <= 0 /\ Abs(x.m * q - p * Pow2(0 - x.e)) * Pow2(23) <= p * Pow2(0 - x.e)

\* The shares of the contexts of a device, and their sum in units of 2^-k.
Shares(d) == [k \in 1..Len(Entries(d)) |-> Share(d, Entries(d)[k])]
Scale(shares) ==
    LET es == {0 - shares[k].e : k \in 1..Len(shares)}
    IN CHOOSE k \in es \cup {0} : \A j \in es \cup {0} : j <= k
ScaledShareSum(shares, scale) ==
    SumSeq([k \in 1..Len(shares) |-> shares[k].m * Pow2(scale + shares[k].e)])

\* the shares of the contexts of `pid`, over the devices that open
SharesOf(pid) ==
    UNION {{<<i, k>> : k \in {j \in 1..Len(Entries(DeviceAt(i))) :
                                   Entries(DeviceAt(i))[j].pid = pid}} :
              i \in OpenDevices}
ShareAt(ik) == Share(DeviceAt(ik[1]), Entries(DeviceAt(ik[1]))[ik[2]])

RECURSIVE ScaledSum(_, _, _)
\* the sum of the shares sh[ik], ik in S, in units of 2^-k
ScaledSum(sh, S, k) ==
    IF S = {} THEN 0
    ELSE LET ik == CHOOSE x \in S : TRUE
         IN sh[ik].m * Pow2(k + sh[ik].e) + ScaledSum(sh, S \ {ik}, k)

\* The accumulated usage, memory and devices of a PID are those of all its
\* contexts, each list of each device counted, each device recorded once; the
\* usage is the sum of the shares, each of the additions after the first
\* rounded to f32.
CreditedPerList(p) ==
    LET with == {i \in OpenDevices : EntriesOf(p.pid, DeviceAt(i)) > 0}
        x == p.gpu_usage_percent
        sh == [ik \in SharesOf(p.pid) |-> ShareAt(ik)]
        es == {0 - sh[ik].e : ik \in DOMAIN sh} \cup {0 - x.e}
        k == CHOOSE j \in es : \A i \in es : i <= j
    IN /\ p.gpu_memory_bytes =
              U64(SumSeq([j \in 1..Len(SortedSeq(with)) |->
                             MemoryOf(p.pid, DeviceAt(SortedSeq(with)[j]))]))
       /\ Range(p.gpus_indexes) = with
       /\ Len(p.gpus_indexes) = Cardinality(with)
       /\ DOMAIN sh # {} =>
             2 * Abs(x.m * Pow2(k + x.e) - ScaledSum(sh, DOMAIN sh, k))
                <= (Cardinality(DOMAIN sh) - 1) * Pow2(k + x.e)

\* C6 as amended: for every device with attributable memory, each context's
\* share is (context_memory / attributable memory) * utilization as computed
\* in floating point, within a relative error of 2^-23 of that value, and the
\* shares sum to the utilization to within a relative error of 2^-23; a PID
\* of both lists of a device is credited once per list and the device index
\* is recorded once.
C6_SharesUpToRounding ==
    (Taken /\ ListsRead) =>
        /\ \A i \in OpenDevices :
              LET d == DeviceAt(i)
                  shares == Shares(d)
                  scale == Scale(shares)
              IN Attributable(d) > 0 =>
                    /\ \A k \in 1..Len(Entries(d)) :
                          IsRounded(shares[k],
                                    CtxMem(Entries(d)[k]) * Utilization(d), Attributable(d))
                    /\ Abs(ScaledShareSum(shares, scale) - Utilization(d) * Pow2(scale))
                             * Pow2(23)
                          <= Utilization(d) * Pow2(scale)
        /\ \A p \in Processes : CreditedPerList(p)

\* A snapshot with a process that one device lists as a compute and as a
\* graphics context, credited for both.
C6_Witness ==
    /\ Taken /\ ListsRead
    /\ \E p \in Processes, i \in OpenDevices :
          /\ \E c \in Range(Unwrap(DeviceAt(i).compute)) : c.pid = p.pid /\ CtxMem(c) > 0
          /\ \E c \in Range(Unwrap(DeviceAt(i).graphics)) : c.pid = p.pid /\ CtxMem(c) > 0
          /\ p.gpus_indexes = <<i>>
          /\ p.gpu_memory_bytes = U64(MemoryOf(p.pid, DeviceAt(i)))
          /\ p.gpu_usage_percent.m > 0

\* C6 as claimed: for every device with attributable memory, each context's
\* share is exactly (context_memory / attributable memory) * utilization and
\* the shares sum to exactly the utilization.
C6_SharesExact ==
    (Taken /\ ListsRead) =>
        \A i \in OpenDevices :
            LET d == DeviceAt(i)
                shares == Shares(d)
                scale == Scale(shares)
            IN Attributable(d) > 0 =>
                  /\ \A k \in 1..Len(Entries(d)) :
                        IsExactly(shares[k],
                                  CtxMem(Entries(d)[k]) * Utilization(d), Attributable(d))
                  /\ ScaledShareSum(shares, scale) = Utilization(d) * Pow2(scale)

-----------------------------------------------------------------------------
(* The agent's run: the operating system starts, changes and ends          *)
(* processes while the agent refreshes and samples.                        *)

Uids == {0, AgentUid}
CpuLoads == {0, 50}
\* CPU load and resident memory of a process when it starts
Loads == {<<0, 0>>, <<50, MiB>>}

\* two GPUs: an idle one holding a context of PID 1 and a busy one holding
\* a context of PID 2
TwoGpus ==
    Some(Handle(TRUE, <<Device(TRUE, Some(0), Some(MemInfo(1, 2)),
                               Some(<<Ctx(1, Some(1))>>), Some(<<>>)),
                        Device(TRUE, Some(50), Some(MemInfo(1, 2)),
                               Some(<<Ctx(2, Some(1))>>), Some(<<>>))>>))

Init ==
    /\ mode = "Local"
    /\ files = NoFiles
    /\ envv = NoEnv
    /\ host = NewSystem
    /\ nvml = TwoGpus
    /\ os = NoProcs
    /\ table = NoProcs
    /\ seen = {}
    /\ clock = 1
    /\ pc = "start"
    /\ snapshot = None
    /\ result = "none"

\* A process starts under a free PID; `clock` is its start time.
Spawn ==
    /\ clock <= MaxStarts
    /\ \E p \in Pids \ DOMAIN os, uid \in Uids, l \in Loads :
          os' = os @@ (p :> Proc(uid, clock, l[1], l[2]))
    /\ clock' = clock + 1
    /\ UNCHANGED <<mode, files, envv, host, nvml, table, seen, pc, snapshot, result>>

\* A process ends and frees its PID.
Exit ==
    /\ \E p \in DOMAIN os : os' = [q \in DOMAIN os \ {p} |-> os[q]]
    /\ UNCHANGED <<mode, files, envv, host, nvml, table, seen, clock, pc, snapshot, result>>

\* A running process gets busy or idle.
Run ==
    /\ \E p \in DOMAIN os, cpu \in CpuLoads :
          /\ cpu # os[p].cpu
          /\ os' = [os EXCEPT ![p].cpu = cpu]
    /\ UNCHANGED <<mode, files, envv, host, nvml, table, seen, clock, pc, snapshot, result>>

Next == Spawn \/ Exit \/ Run \/ Refresh \/ TakeSnapshot

Spec == Init /\ [][Next]_vars

\* The last snapshot call wrote a snapshot, the one of the process table as
\* it stands.
Sampled == pc = "sleep" /\ result = "ok"

\* what the GPU attribution holds for a PID
GpuUsageMap == IF IsSome(nvml) THEN _collect_gpu_usage(Unwrap(nvml)) ELSE EmptyMap
GpuUsageOf(usage, pid) == IF pid \in DOMAIN usage THEN usage[pid].usage ELSE F32Zero
GpuMemoryOf(usage, pid) == IF pid \in DOMAIN usage THEN usage[pid].mem ELSE <<>>

\* C7: a tracked process is in the snapshot if and only if its CPU usage, its
\* GPU usage or its resident memory is non-zero, whatever its GPU memory.
C7_ActiveProcessesOnly ==
    Sampled =>
        \A usage \in {GpuUsageMap}, pid \in DOMAIN table :
            (\E p \in Processes : p.pid = pid)
                <=> (table[pid].cpu # 0 \/ GpuUsageOf(usage, pid).m # 0
                        \/ table[pid].mem # <<>>)

\* A snapshot that leaves out a tracked process with GPU memory and zero in
\* the three fields, and keeps another.
C7_Witness ==
    /\ Sampled
    /\ \E pid \in DOMAIN table :
          /\ table[pid].cpu = 0 /\ table[pid].mem = <<>>
          /\ GpuUsageOf(GpuUsageMap, pid).m = 0 /\ GpuMemoryOf(GpuUsageMap, pid) # <<>>
          /\ \A p \in Processes : p.pid # pid
    /\ Processes # {}

\* C8: every process of a snapshot belongs to the agent's user or was already
\* tracked before the refresh the snapshot follows.
C8_OwnOrTracked ==
    Sampled =>
        \A p \in Processes :
            \/ table[p.pid].uid = AgentUid
            \/ <<p.pid, table[p.pid].start>> \in seen

-----------------------------------------------------------------------------
(* Failed list reads in GPU attribution, checked under SpecGpu.            *)

\* a device with every list that could not be read taken as empty
WithEmptyForFailed(d) ==
    IF ~d.ok THEN d
    ELSE [d EXCEPT !.compute = IF IsSome(@) THEN @ ELSE Some(<<>>),
                   !.graphics = IF IsSome(@) THEN @ ELSE Some(<<>>)]

\* the handle with the failed lists of its devices taken as empty
HandleWithEmptyForFailed ==
    Some([Unwrap(nvml) EXCEPT
             !.devices = [i \in 1..Len(@) |-> WithEmptyForFailed(@[i])]])

\* Some list of some device that opens cannot be read.
SomeListFails ==
    /\ IsSome(nvml)
    /\ Unwrap(nvml).count_ok
    /\ \E i \in OpenDevices :
          ~IsSome(DeviceAt(i).compute) \/ ~IsSome(DeviceAt(i).graphics)

\* C11: when the read of one list of a device fails, the processes of the
\* snapshot carry the GPU usage, GPU memory and devices they would carry if
\* the failed list were empty: the other list of the device and the other
\* devices are attributed all the same.
C11_ListsIndependent ==
    (Taken /\ SomeListFails) =>
        Processes = take_processes_snapshot(System, HandleWithEmptyForFailed).processes

-----------------------------------------------------------------------------
(* The life of a tracked process over the cycles, checked under Spec.      *)

\* a step of refresh_user_processes, and one of take_and_save_snapshot
RefreshStep == pc \in {"start", "sleep"} /\ pc' # pc
SnapshotStep == pc = "refreshed" /\ pc' = "sleep" /\ result' = "ok"

\* the live processes of the agent's user
OwnPids == {p \in DOMAIN os : os[p].uid = AgentUid}
\* The process tracked under PID p is still the one running under p.
StillAlive(p) == p \in DOMAIN os /\ os[p].start = table[p].start

\* C12: a refresh covers the PIDs discovered as owned by the agent's user
\* (those of its PIDs the scan of /proc reads) and every PID of the table; after it the
\* table holds live processes only, a tracked process that has exited is gone
\* from it, a tracked process that is alive stays in it, and a snapshot lists
\* processes of the table only.
C12_TrackedWhileAlive ==
    [][/\ RefreshStep =>
             /\ \E found \in SUBSET OwnPids :
                   DOMAIN table' = (found \cup DOMAIN table) \cap DOMAIN os
             /\ \A p \in DOMAIN table' : table'[p] = os[p]
             /\ \A p \in DOMAIN table :
                   IF StillAlive(p)
                   THEN p \in DOMAIN table' /\ table'[p].start = table[p].start
                   ELSE p \notin DOMAIN table' \/ table'[p].start # table[p].start
       /\ SnapshotStep =>
             \A p \in snapshot'[1].processes_snapshot.processes :
                 /\ p.pid \in DOMAIN table
                 /\ p.cpu_usage_percent = table[p.pid].cpu
                 /\ p.cpu_memory_bytes = table[p.pid].mem]_vars

====
